---- MODULE Spec2Model ----
(***************************************************************************)
(* ExtendedCanonicalV200Generator                                          *)
(* (src/src/mongo/bson/generator_extended_canonical_2_0_0.h): the per-kind *)
(* write operations that append the canonical Extended JSON 2.0.0 text of  *)
(* one BSON value to a caller-owned fmt::memory_buffer.                    *)
(*                                                                         *)
(* Buffers and texts are strings.  A value is a tagged pair                *)
(* <<kind, payload>>.  Every write operation is an operator that yields    *)
(* the statements of its body in order:                                    *)
(*   <<"append", text>>                 bytes appended to the buffer       *)
(*   <<"call", doc, depth, pretty>>     scope.jsonStringGenerator(...)     *)
(*   <<"uassert", code>>                a failed uassert (throws)          *)
(*   <<"write", value>>                 the traversal calling write<Kind>  *)
(* Integers of the checker are 32 bits wide: int32_t is held natively,     *)
(* 64-bit and unsigned 32-bit values as 16-bit limbs, most significant     *)
(* first (two's complement for the signed ones).                           *)
(***************************************************************************)
EXTENDS Integers, Sequences, FiniteSets, TLC

VARIABLES buffer, prev, last, ctxDepth, failed, calls,
          bufs, frames, inputs, nested, closed

vars == <<buffer, prev, last, ctxDepth, failed, calls,
          bufs, frames, inputs, nested, closed>>

seqVars == <<buffer, prev, last, ctxDepth, failed, calls>>
parVars == <<bufs, frames, inputs, nested, closed>>

\* The last call made on buffer: the operation's name and the value it was
\* given.
op == last[1]
arg == last[2]

---------------------------------------------------------------------------
(* Bounds of the model.                                                    *)

\* Longest string drawn for writeString.
MaxStrLen == 2
\* A write call is made while the buffer holds fewer bytes than this.
MaxBufLen == 5
\* Largest finite magnitude of the model's doubles (stands for DBL_MAX).
MaxDouble == 2
\* Deepest nesting of code-with-scope values inside scope documents.
MaxNest == 2
\* Largest nesting depth at which the traversal calls the encoder.
MaxCtxDepth == 1

---------------------------------------------------------------------------
(* Text primitives.                                                        *)

Ch(s, i) == SubSeq(s, i, i)

Digit(d) == Ch("0123456789", d + 1)

HexDigit(d) == Ch("0123456789abcdef", d + 1)

RECURSIVE FormatNat(_)
\* fmt's decimal rendering of a non-negative int.
FormatNat(n) ==
    IF n < 10 THEN Digit(n) ELSE FormatNat(n \div 10) \o Digit(n % 10)

RECURSIVE FormatNegMag(_)
\* The decimal digits of |n| for n < 0, without negating n (INT32_MIN).
FormatNegMag(n) ==
    LET d == (10 - (n % 10)) % 10
        q == (n + d) \div 10
    IN  IF q = 0 THEN Digit(d) ELSE FormatNegMag(q) \o Digit(d)

\* fmt "{}" of an int32_t: optional '-', decimal digits.
FormatInt(val) ==
    IF val >= 0 THEN FormatNat(val) ELSE "-" \o FormatNegMag(val)

RECURSIVE FormatHexNat(_)
\* fmt "{:x}" of a non-negative int: lowercase hex, no padding.
FormatHexNat(n) ==
    IF n < 16 THEN HexDigit(n) ELSE FormatHexNat(n \div 16) \o HexDigit(n % 16)

LimbBase == 2 ^ 16

IsZeroLimbs(l) == \A i \in 1..Len(l) : l[i] = 0

RECURSIVE DivLimbs10(_, _, _)
\* Long division of a limb number by 10: <<quotient limbs, remainder>>.
DivLimbs10(l, i, r) ==
    IF i > Len(l) THEN <<<<>>, r>>
    ELSE LET cur == r * LimbBase + l[i]
             rest == DivLimbs10(l, i + 1, cur % 10)
         IN  <<<<cur \div 10>> \o rest[1], rest[2]>>

RECURSIVE FormatLimbs(_)
\* fmt's decimal rendering of an unsigned limb number.
FormatLimbs(l) ==
    LET dm == DivLimbs10(l, 1, 0)
    IN  IF IsZeroLimbs(dm[1]) THEN Digit(dm[2])
        ELSE FormatLimbs(dm[1]) \o Digit(dm[2])

RECURSIVE IncLimbs(_, _)
\* l + 1 modulo 2^(16 * Len(l)), from limb i down.
IncLimbs(l, i) ==
    IF i = 0 THEN l
    ELSE IF l[i] = LimbBase - 1 THEN IncLimbs([l EXCEPT ![i] = 0], i - 1)
    ELSE [l EXCEPT ![i] = @ + 1]

\* Two's complement negation: 0 - l in unsigned arithmetic.
NegLimbs(l) == IncLimbs([i \in 1..Len(l) |-> LimbBase - 1 - l[i]], Len(l))

IsNegLimbs(l) == l[1] >= LimbBase \div 2

\* fmt "{}" of an int64_t: abs_value = 0 - value when negative, then decimal.
FormatInt64(val) ==
    IF IsNegLimbs(val) THEN "-" \o FormatLimbs(NegLimbs(val))
    ELSE FormatLimbs(val)

---------------------------------------------------------------------------
(* Primitives the encoder consumes (mongo/util/str_escape.h, base64.h,     *)
(* bson/oid.h, platform/decimal128.h) and the IEEE-754 double.             *)

\* str::escapeForJSON of one character.
EscapeChar(c) ==
    CASE c = "\"" -> "\\\""
      [] c = "\\" -> "\\\\"
      [] c = "\t" -> "\\t"
      [] OTHER -> c

RECURSIVE EscapeFrom(_, _)
EscapeFrom(str, i) ==
    IF i > Len(str) THEN "" ELSE EscapeChar(Ch(str, i)) \o EscapeFrom(str, i + 1)

\* str::escapeForJSON(buffer, str): the text it appends.
escapeForJSON(str) == EscapeFrom(str, 1)

B64Char(n) ==
    Ch("ABCDEFGHIJKLMNOPQRSTUVWXYZabcdefghijklmnopqrstuvwxyz0123456789+/", n + 1)

RECURSIVE Base64From(_, _)
Base64From(data, i) ==
    LET n == Len(data) - i + 1
    IN  IF n <= 0 THEN ""
        ELSE IF n = 1 THEN
            B64Char(data[i] \div 4) \o B64Char((data[i] % 4) * 16) \o "=="
        ELSE IF n = 2 THEN
            B64Char(data[i] \div 4)
                \o B64Char((data[i] % 4) * 16 + data[i + 1] \div 16)
                \o B64Char((data[i + 1] % 16) * 4) \o "="
        ELSE
            B64Char(data[i] \div 4)
                \o B64Char((data[i] % 4) * 16 + data[i + 1] \div 16)
                \o B64Char((data[i + 1] % 16) * 4 + data[i + 2] \div 64)
                \o B64Char(data[i + 2] % 64)
                \o Base64From(data, i + 3)

\* base64::encode(buffer, data): the text it appends.
base64encode(data) == Base64From(data, 1)

RECURSIVE OIDHexFrom(_, _)
OIDHexFrom(id, i) ==
    IF i > Len(id) THEN ""
    ELSE HexDigit(id[i] \div 16) \o HexDigit(id[i] % 16) \o OIDHexFrom(id, i + 1)

\* OID::toString(): 2 lowercase hex digits per byte.
OIDtoString(id) == OIDHexFrom(id, 1)

\* A double is [cls, neg, mag]: cls is "nan", "inf" or "fin"; finite values
\* are the integers of magnitude mag <= MaxDouble, of either sign.
DoubleOrd(v) ==
    IF v.cls = "inf" THEN (IF v.neg THEN -(MaxDouble + 1) ELSE MaxDouble + 1)
    ELSE (IF v.neg THEN -v.mag ELSE v.mag)

\* IEEE-754 comparisons: every comparison with a NaN is false.
dGE(a, b) == a.cls # "nan" /\ b.cls # "nan" /\ DoubleOrd(a) >= DoubleOrd(b)
dLE(a, b) == a.cls # "nan" /\ b.cls # "nan" /\ DoubleOrd(a) <= DoubleOrd(b)
dGT(a, b) == a.cls # "nan" /\ b.cls # "nan" /\ DoubleOrd(a) > DoubleOrd(b)

lowest == [cls |-> "fin", neg |-> TRUE, mag |-> MaxDouble]
max == [cls |-> "fin", neg |-> FALSE, mag |-> MaxDouble]
dZero == [cls |-> "fin", neg |-> FALSE, mag |-> 0]

\* Variant: only the positive infinity is recognised.
isinfPositive(val) == val.cls = "inf" /\ ~val.neg

isnan(val) == val.cls = "nan"
isinf(val) == val.cls = "inf"

\* fmt "{}" of a double: fmt itself prints nan and inf in lowercase.
FormatDouble(val) ==
    (IF val.neg THEN "-" ELSE "")
        \o (CASE val.cls = "nan" -> "nan"
              [] val.cls = "inf" -> "inf"
              [] OTHER -> FormatNat(val.mag) \o ".0")

\* A Decimal128 is [cls, neg, coeff, exp]: value (-1)^neg * coeff * 10^exp.
isNaN(val) == val.cls = "nan"
isInfinite(val) == val.cls = "inf"
isNegative(val) == val.neg

RECURSIVE Zeros(_)
Zeros(n) == IF n <= 0 THEN "" ELSE "0" \o Zeros(n - 1)

\* Decimal128::toString() of a finite value: the IEEE 754-2008
\* to-scientific-string conversion, which keeps the exponent (1.0 # 1).
DecimalToString(val) ==
    LET digits == FormatNat(val.coeff)
        nd == Len(digits)
        adj == val.exp + nd - 1
        absAdj == IF adj < 0 THEN -adj ELSE adj
        body ==
            IF val.exp <= 0 /\ adj >= -6 THEN
                IF val.exp = 0 THEN digits
                ELSE IF nd > -val.exp THEN
                    SubSeq(digits, 1, nd + val.exp) \o "."
                        \o SubSeq(digits, nd + val.exp + 1, nd)
                ELSE "0." \o Zeros(-val.exp - nd) \o digits
            ELSE
                Ch(digits, 1)
                    \o (IF nd > 1 THEN "." \o SubSeq(digits, 2, nd) ELSE "")
                    \o "E" \o (IF adj < 0 THEN "-" ELSE "+") \o FormatNat(absAdj)
    IN  (IF val.neg THEN "-" ELSE "") \o body

---------------------------------------------------------------------------
(* The write operations, statement by statement.                           *)

\* appendTo(buffer, data): buffer.append(data.begin(), data.end()).
appendTo(data) == <<"append", data>>

\* buffer.push_back(c).
push_back(c) == <<"append", c>>

\* fmt::format_to(buffer, ...): appends the formatted text.
format_to(text) == <<"append", text>>

writeNull == << appendTo("null") >>

writeUndefined == << appendTo("{\"$undefined\":true}") >>

writeString(str) ==
    << push_back("\""), appendTo(escapeForJSON(str)), push_back("\"") >>

writeBool(val) ==
    IF val THEN << appendTo("true") >> ELSE << appendTo("false") >>

\* Variant: the "{:x}" presentation of writeBinData used for the number.
writeInt32Hex(val) ==
    << format_to("{\"$numberInt\":\""
            \o (IF val >= 0 THEN FormatHexNat(val) ELSE "-" \o FormatNegMag(val))
            \o "\"}") >>

writeInt32(val) ==
    << format_to("{\"$numberInt\":\"" \o FormatInt(val) \o "\"}") >>

writeInt64(val) ==
    << format_to("{\"$numberLong\":\"" \o FormatInt64(val) \o "\"}") >>

\* Variant: the range test joined with "or", which lets an infinity through
\* to the numeric formatting.
writeDoubleOr(val) ==
    IF dGE(val, lowest) \/ dLE(val, max) THEN
        << format_to("{\"$numberDouble\":\"" \o FormatDouble(val) \o "\"}") >>
    ELSE IF isnan(val) THEN
        << appendTo("{\"$numberDouble\":\"NaN\"}") >>
    ELSE IF isinf(val) THEN
        IF dGT(val, dZero) THEN << appendTo("{\"$numberDouble\":\"Infinity\"}") >>
        ELSE << appendTo("{\"$numberDouble\":\"-Infinity\"}") >>
    ELSE << <<"uassert", 51757>> >>

writeDouble(val) ==
    IF dGE(val, lowest) /\ dLE(val, max) THEN
        << format_to("{\"$numberDouble\":\"" \o FormatDouble(val) \o "\"}") >>
    ELSE IF isnan(val) THEN
        << appendTo("{\"$numberDouble\":\"NaN\"}") >>
    ELSE IF isinf(val) THEN
        IF dGT(val, dZero) THEN << appendTo("{\"$numberDouble\":\"Infinity\"}") >>
        ELSE << appendTo("{\"$numberDouble\":\"-Infinity\"}") >>
    ELSE << <<"uassert", 51757>> >>

writeDecimal128(val) ==
    IF isNaN(val) THEN
        << appendTo("{\"$numberDecimal\":\"NaN\"}") >>
    ELSE IF isInfinite(val) THEN
        << format_to("{\"$numberDecimal\":\""
                \o (IF isNegative(val) THEN "-Infinity" ELSE "Infinity") \o "\"}") >>
    ELSE
        << format_to("{\"$numberDecimal\":\"" \o DecimalToString(val) \o "\"}") >>

\* val is Date_t::toMillisSinceEpoch(), an int64_t.
writeDate(val) ==
    << format_to("{\"$date\":{\"$numberLong\":\"" \o FormatInt64(val) \o "\"}}") >>

writeDBRef(ref, id) ==
    << appendTo("{\"$ref\":\""),
       appendTo(escapeForJSON(ref)),
       format_to("\",\"$id\":\"" \o OIDtoString(id) \o "\"}") >>

writeOID(val) ==
    << format_to("{\"$oid\":\"" \o OIDtoString(val) \o "\"}") >>

\* secs and inc are Timestamp::getSecs() and getInc(), unsigned 32-bit.
writeTimestamp(secs, inc) ==
    << format_to("{\"$timestamp\":{\"t\":" \o FormatLimbs(secs)
            \o ",\"i\":" \o FormatLimbs(inc) \o "}}") >>

writeBinData(data, type) ==
    << appendTo("{\"$binary\":{\"base64\":\""),
       appendTo(base64encode(data)),
       format_to("\",\"subType\":\"" \o FormatHexNat(type) \o "\"}}") >>

\* Variant: the closing text lacks the brace of the outer object.
writeRegexUnclosed(pattern, options) ==
    << appendTo("{\"$regularExpression\":{\"pattern\":\""),
       appendTo(escapeForJSON(pattern)),
       appendTo("\",\"options\":\""),
       appendTo(escapeForJSON(options)),
       appendTo("\"}") >>

writeRegex(pattern, options) ==
    << appendTo("{\"$regularExpression\":{\"pattern\":\""),
       appendTo(escapeForJSON(pattern)),
       appendTo("\",\"options\":\""),
       appendTo(escapeForJSON(options)),
       appendTo("\"}}") >>

writeSymbol(symbol) ==
    << appendTo("{\"$symbol\":\""),
       appendTo(escapeForJSON(symbol)),
       appendTo("\"}") >>

writeCode(code) ==
    << appendTo("{\"$code\":\""),
       appendTo(escapeForJSON(code)),
       appendTo("\"}") >>

\* Variant: the nested document is asked for in the pretty layout at the
\* next depth.
writeCodeWithScopePretty(code, scope) ==
    << appendTo("{\"$code\":\""),
       appendTo(escapeForJSON(code)),
       appendTo("\",\"$scope\":"),
       <<"call", scope, 1, TRUE>>,
       appendTo("}") >>

\* Variant: the enclosing object is never closed.
writeCodeWithScopeUnclosed(code, scope) ==
    << appendTo("{\"$code\":\""),
       appendTo(escapeForJSON(code)),
       appendTo("\",\"$scope\":"),
       <<"call", scope, 0, FALSE>> >>

writeCodeWithScope(code, scope) ==
    << appendTo("{\"$code\":\""),
       appendTo(escapeForJSON(code)),
       appendTo("\",\"$scope\":"),
       <<"call", scope, 0, FALSE>>,
       appendTo("}") >>

writeMinKey == << appendTo("{\"$minKey\":1}") >>

writeMaxKey == << appendTo("{\"$maxKey\":1}") >>

\* Variant: pads with a space, as a pretty-printing generator would.
writePaddingSpace == << appendTo(" ") >>

writePadding == << >>

---------------------------------------------------------------------------
(* The document traversal the encoder calls back into                      *)
(* (BSONObj::jsonStringGenerator and the per-element dispatch).            *)

\* A document is a sequence of fields <<name, value>>.
RECURSIVE FieldStmts(_, _)
FieldStmts(doc, i) ==
    IF i > Len(doc) THEN << >>
    ELSE << appendTo((IF i > 1 THEN "," ELSE "")
                \o "\"" \o escapeForJSON(doc[i][1]) \o "\":"),
            <<"write", doc[i][2]>> >>
         \o FieldStmts(doc, i + 1)

\* scope.jsonStringGenerator(generator, depth, pretty, buffer): braces, field
\* names and separators around one write call per field.  The encoder only
\* ever asks for the compact layout, the only one modelled.
jsonStringGenerator(doc, depth, pretty) ==
    << appendTo("{") >> \o FieldStmts(doc, 1) \o << appendTo("}") >>

\* The traversal's dispatch on the element's type to write<Kind>.
Write(v) ==
    LET k == v[1]
        x == v[2]
    IN  CASE k = "Null" -> writeNull
          [] k = "Undefined" -> writeUndefined
          [] k = "String" -> writeString(x)
          [] k = "Bool" -> writeBool(x)
          [] k = "Int32" -> writeInt32(x)
          [] k = "Int64" -> writeInt64(x)
          [] k = "Double" -> writeDouble(x)
          [] k = "Decimal128" -> writeDecimal128(x)
          [] k = "Date" -> writeDate(x)
          [] k = "DBRef" -> writeDBRef(x.ref, x.id)
          [] k = "OID" -> writeOID(x)
          [] k = "Timestamp" -> writeTimestamp(x.secs, x.inc)
          [] k = "BinData" -> writeBinData(x.data, x.type)
          [] k = "Regex" -> writeRegex(x.pattern, x.options)
          [] k = "Symbol" -> writeSymbol(x)
          [] k = "Code" -> writeCode(x)
          [] k = "CodeWScope" -> writeCodeWithScope(x.code, x.scope)
          [] k = "MinKey" -> writeMinKey
          [] k = "MaxKey" -> writeMaxKey

RECURSIVE Exec(_, _, _)
\* Runs statements to completion at traversal depth ctx.  st is
\* [buffer, failed, calls]; calls lists the nested jsonStringGenerator calls
\* with the depth of the traversal that made them.  A failed uassert throws:
\* nothing after it runs.
Exec(stmts, ctx, st) ==
    IF Len(stmts) = 0 \/ st.failed THEN st
    ELSE LET s == Head(stmts)
             st1 ==
                CASE s[1] = "append" -> [st EXCEPT !.buffer = @ \o s[2]]
                  [] s[1] = "uassert" -> [st EXCEPT !.failed = TRUE]
                  [] s[1] = "call" ->
                        Exec(jsonStringGenerator(s[2], s[3], s[4]), s[3],
                             [st EXCEPT !.calls = Append(@,
                                [ctx |-> ctx, depth |-> s[3], pretty |-> s[4]])])
                  [] s[1] = "write" -> Exec(Write(s[2]), ctx, st)
         IN  Exec(Tail(stmts), ctx, st1)

\* The bytes one write call appends when it runs alone on an empty buffer.
Encode(v) == Exec(Write(v), 0, [buffer |-> "", failed |-> FALSE, calls |-> << >>]).buffer

---------------------------------------------------------------------------
(* Input values.                                                           *)

Chars == {"a", "\"", "\\", "\t", "}"}

RECURSIVE StrsOfLen(_)
StrsOfLen(n) ==
    IF n = 0 THEN {""} ELSE {s \o c : s \in StrsOfLen(n - 1), c \in Chars}

Strings == UNION {StrsOfLen(n) : n \in 0..MaxStrLen}

\* Strings for the other string-bearing kinds.
Texts == {"", "f(\"}\")", "\\\t"}

INT32_MAX == 2147483647
INT32_MIN == -INT32_MAX - 1

Int32Vals == {0, 1, -1, -7, 10, 100, 1000000007, INT32_MAX, INT32_MIN}

\* 0, 42, -1, -7, 9000000000, INT64_MAX, INT64_MIN.
Int64Vals ==
    { <<0, 0, 0, 0>>, <<0, 0, 0, 42>>, <<65535, 65535, 65535, 65535>>,
      <<65535, 65535, 65535, 65529>>, <<0, 2, 6257, 6656>>,
      <<32767, 65535, 65535, 65535>>, <<32768, 0, 0, 0>> }

\* 0, 1, 65536, UINT32_MAX.
UInt32Vals == { <<0, 0>>, <<0, 1>>, <<1, 0>>, <<65535, 65535>> }

Doubles ==
    [cls : {"nan", "inf"}, neg : BOOLEAN, mag : {0}]
        \cup [cls : {"fin"}, neg : BOOLEAN, mag : 0..MaxDouble]

Decimals ==
    [cls : {"nan", "inf"}, neg : BOOLEAN, coeff : {0}, exp : {0}]
        \cup [cls : {"fin"}, neg : BOOLEAN, coeff : {0, 1, 10}, exp : {-1, 0, 1}]

OIDs ==
    { <<0, 0, 0, 0, 0, 0, 0, 0, 0, 0, 0, 0>>,
      <<80, 127, 25, 30, 129, 12, 25, 114, 157, 232, 96, 234>>,
      <<255, 255, 255, 255, 255, 255, 255, 255, 255, 255, 255, 255>> }

Payloads == { << >>, <<1, 2>>, <<0, 16, 131, 255>> }

BinTypes == 0..255

Null == <<"Null", << >> >>

BaseDocs ==
    { << >>,
      << <<"x", <<"Int32", 1>> >> >>,
      << <<"s\"", <<"String", "}">> >>, <<"n", Null>> >> }

CodeWScope(code, scope) == <<"CodeWScope", [code |-> code, scope |-> scope]>>

RECURSIVE ScopeDocs(_)
\* Scope documents holding code-with-scope values nested up to n deep.
ScopeDocs(n) ==
    IF n = 0 THEN BaseDocs
    ELSE BaseDocs
            \cup { << <<"f", CodeWScope("g", d)>> >> : d \in ScopeDocs(n - 1) }
            \cup { << <<"f", CodeWScope("g", d)>>, <<"h", CodeWScope("", << >>)>> >> :
                        d \in ScopeDocs(n - 1) }

---------------------------------------------------------------------------
(* Specification Spec: a traversal calls the write operations one after    *)
(* another on one buffer.                                                  *)

Init ==
    /\ buffer = ""
    /\ prev = ""
    /\ last = <<"init", << >>>>
    /\ ctxDepth = 0
    /\ failed = FALSE
    /\ calls = << >>
    /\ bufs = << >>
    /\ frames = << >>
    /\ inputs = << >>
    /\ nested = << >>
    /\ closed = << >>

\* One whole write call made at traversal depth d: everything the body does,
\* nested document included.  ctxDepth is the depth at which the traversal
\* last called writeCodeWithScope, the one operation that calls back into it.
Call(name, value, stmts, d) ==
    LET r == Exec(stmts, d, [buffer |-> buffer, failed |-> FALSE, calls |-> << >>])
    IN  /\ buffer' = r.buffer
        /\ prev' = buffer
        /\ last' = <<name, value>>
        /\ ctxDepth' = d
        /\ failed' = r.failed
        /\ calls' = r.calls
        /\ UNCHANGED parVars

Depths == 0..MaxCtxDepth

\* The traversal makes another call: nothing has thrown, and the model's
\* buffer bound is not reached.
CanCall == Len(buffer) < MaxBufLen /\ ~failed

WriteNull == CanCall /\ Call("Null", << >>, writeNull, ctxDepth)

WriteUndefined == CanCall /\ Call("Undefined", << >>, writeUndefined, ctxDepth)

WriteString == \E str \in Strings : CanCall /\ Call("String", str, writeString(str), ctxDepth)

WriteBool == \E val \in BOOLEAN : CanCall /\ Call("Bool", val, writeBool(val), ctxDepth)

WriteInt32 == \E val \in Int32Vals : CanCall /\ Call("Int32", val, writeInt32(val), ctxDepth)

WriteInt64 == \E val \in Int64Vals : CanCall /\ Call("Int64", val, writeInt64(val), ctxDepth)

WriteDouble == \E val \in Doubles : CanCall /\ Call("Double", val, writeDouble(val), ctxDepth)

WriteDecimal128 ==
    \E val \in Decimals : CanCall /\ Call("Decimal128", val, writeDecimal128(val), ctxDepth)

WriteDate == \E val \in Int64Vals : CanCall /\ Call("Date", val, writeDate(val), ctxDepth)

WriteDBRef ==
    \E ref \in Texts, id \in OIDs :
        CanCall /\ Call("DBRef", [ref |-> ref, id |-> id], writeDBRef(ref, id), ctxDepth)

WriteOID == \E val \in OIDs : CanCall /\ Call("OID", val, writeOID(val), ctxDepth)

WriteTimestamp ==
    \E secs \in UInt32Vals, inc \in UInt32Vals :
        CanCall /\ Call("Timestamp", [secs |-> secs, inc |-> inc], writeTimestamp(secs, inc), ctxDepth)

WriteBinData ==
    \E data \in Payloads, type \in BinTypes :
        CanCall /\ Call("BinData", [data |-> data, type |-> type], writeBinData(data, type), ctxDepth)

WriteRegex ==
    \E pattern \in Texts, options \in Texts :
        CanCall /\ Call("Regex", [pattern |-> pattern, options |-> options],
             writeRegex(pattern, options), ctxDepth)

WriteSymbol ==
    \E symbol \in Texts : CanCall /\ Call("Symbol", symbol, writeSymbol(symbol), ctxDepth)

WriteCode == \E code \in Texts : CanCall /\ Call("Code", code, writeCode(code), ctxDepth)

WriteCodeWithScope ==
    \E d \in Depths, code \in Texts, scope \in ScopeDocs(MaxNest - 1) :
        CanCall /\ Call("CodeWScope", [code |-> code, scope |-> scope],
             writeCodeWithScope(code, scope), d)

WriteMinKey == CanCall /\ Call("MinKey", << >>, writeMinKey, ctxDepth)

WriteMaxKey == CanCall /\ Call("MaxKey", << >>, writeMaxKey, ctxDepth)

WritePadding == CanCall /\ Call("Padding", << >>, writePadding, ctxDepth)

Next ==
    \/ WriteNull
    \/ WriteUndefined
    \/ WriteString
    \/ WriteBool
    \/ WriteInt32
    \/ WriteInt64
    \/ WriteDouble
    \/ WriteDecimal128
    \/ WriteDate
    \/ WriteDBRef
    \/ WriteOID
    \/ WriteTimestamp
    \/ WriteBinData
    \/ WriteRegex
    \/ WriteSymbol
    \/ WriteCode
    \/ WriteCodeWithScope
    \/ WriteMinKey
    \/ WriteMaxKey
    \/ WritePadding

Spec == Init /\ [][Next]_vars

\* The bytes the last call appended.
Appended == SubSeq(buffer, Len(prev) + 1, Len(buffer))

---------------------------------------------------------------------------
(* Specification SpecPar: encode calls run in parallel, each on a buffer   *)
(* of its own, one statement at a time.  A call's stack holds one frame    *)
(* per active function: [kind, val, stmts, i, ctx], i the next statement.  *)

Procs == {1, 2}

Int32(val) == <<"Int32", val>>

RECURSIVE ScopeChain(_)
\* A scope document nesting n code-with-scope values inside one another.
ScopeChain(n) ==
    IF n = 0 THEN << >> ELSE << <<"f", CodeWScope("g", ScopeChain(n - 1))>> >>

\* The values the parallel calls encode.
ParInputs ==
    { Null,
      <<"String", "a\"}">>,
      <<"Bool", TRUE>>,
      Int32(-7),
      <<"Int64", <<0, 2, 6257, 6656>> >>,
      <<"Double", [cls |-> "nan", neg |-> FALSE, mag |-> 0]>>,
      <<"Double", [cls |-> "inf", neg |-> TRUE, mag |-> 0]>>,
      <<"Double", [cls |-> "fin", neg |-> FALSE, mag |-> 1]>>,
      <<"Decimal128", [cls |-> "fin", neg |-> TRUE, coeff |-> 10, exp |-> -1]>>,
      <<"Date", <<65535, 65535, 65535, 65535>> >>,
      <<"DBRef", [ref |-> "\\\t",
                  id |-> <<80, 127, 25, 30, 129, 12, 25, 114, 157, 232, 96, 234>>]>>,
      <<"Timestamp", [secs |-> <<0, 1>>, inc |-> <<0, 2>>]>>,
      <<"BinData", [data |-> <<1, 2>>, type |-> 0]>>,
      <<"Regex", [pattern |-> "f(\"}\")", options |-> ""]>>,
      <<"Code", "f(\"}\")">>,
      <<"MinKey", << >> >> }
        \cup { CodeWScope("c", << >>),
               CodeWScope("c", << <<"f", CodeWScope("g", << <<"x", Int32(1)>> >>)>>,
                                  <<"h", CodeWScope("", << >>)>> >>),
               CodeWScope("c\"", ScopeChain(MaxNest)) }

WriteFrame(v, ctx) ==
    [kind |-> v[1], val |-> v, stmts |-> Write(v), i |-> 1, ctx |-> ctx]

DocFrame(doc, depth, pretty) ==
    [kind |-> "doc", val |-> doc, stmts |-> jsonStringGenerator(doc, depth, pretty),
     i |-> 1, ctx |-> depth]

InitPar ==
    /\ buffer = ""
    /\ prev = ""
    /\ last = <<"init", << >>>>
    /\ ctxDepth = 0
    /\ failed = FALSE
    /\ calls = << >>
    /\ inputs \in [Procs -> ParInputs]
    /\ bufs = [p \in Procs |-> ""]
    /\ frames = [p \in Procs |-> << WriteFrame(inputs[p], 0) >>]
    /\ nested = [p \in Procs |-> 0]
    /\ closed = [p \in Procs |-> 0]

Top(p) == frames[p][Len(frames[p])]

Running(p) == Len(frames[p]) > 0

AtStmt(p, tag) ==
    /\ Running(p)
    /\ Top(p).i <= Len(Top(p).stmts)
    /\ Top(p).stmts[Top(p).i][1] = tag

CurStmt(p) == Top(p).stmts[Top(p).i]

\* The top frame with its statement counter advanced.
Advanced(p) == [frames[p] EXCEPT ![Len(frames[p])].i = @ + 1]

\* Variant: every call appends to one process-wide buffer.
StepAppendShared(p) ==
    /\ AtStmt(p, "append")
    /\ bufs' = [bufs EXCEPT ![1] = @ \o CurStmt(p)[2]]
    /\ frames' = [frames EXCEPT ![p] = Advanced(p)]
    /\ UNCHANGED <<inputs, nested, closed>>
    /\ UNCHANGED seqVars

\* appendTo / push_back / format_to: the bytes go to the buffer the call
\* was given.
StepAppend(p) ==
    /\ AtStmt(p, "append")
    /\ bufs' = [bufs EXCEPT ![p] = @ \o CurStmt(p)[2]]
    /\ frames' = [frames EXCEPT ![p] = Advanced(p)]
    /\ UNCHANGED <<inputs, nested, closed>>
    /\ UNCHANGED seqVars

\* writeCodeWithScope enters scope.jsonStringGenerator.
StepCall(p) ==
    /\ AtStmt(p, "call")
    /\ frames' = [frames EXCEPT ![p] =
            Append(Advanced(p), DocFrame(CurStmt(p)[2], CurStmt(p)[3], CurStmt(p)[4]))]
    /\ nested' = [nested EXCEPT ![p] = @ + 1]
    /\ UNCHANGED <<bufs, inputs, closed>>
    /\ UNCHANGED seqVars

\* The traversal enters the write operation of a field's value.
StepWrite(p) ==
    /\ AtStmt(p, "write")
    /\ frames' = [frames EXCEPT ![p] =
            Append(Advanced(p), WriteFrame(CurStmt(p)[2], Top(p).ctx))]
    /\ UNCHANGED <<bufs, inputs, nested, closed>>
    /\ UNCHANGED seqVars

\* The top function returns; a failed uassert unwinds the whole call.
StepReturn(p) ==
    /\ Running(p)
    /\ Top(p).i > Len(Top(p).stmts) \/ AtStmt(p, "uassert")
    /\ frames' = [frames EXCEPT ![p] =
            IF AtStmt(p, "uassert") THEN << >>
            ELSE SubSeq(frames[p], 1, Len(frames[p]) - 1)]
    /\ closed' = [closed EXCEPT ![p] =
            IF Top(p).kind = "CodeWScope" /\ ~AtStmt(p, "uassert") THEN @ + 1 ELSE @]
    /\ UNCHANGED <<bufs, inputs, nested>>
    /\ UNCHANGED seqVars

Step(p) == StepAppend(p) \/ StepCall(p) \/ StepWrite(p) \/ StepReturn(p)

NextPar == \E p \in Procs : Step(p)

\* Each call is synchronous code on a thread of its own: a call that can
\* take a step eventually takes one.
SpecPar == InitPar /\ [][NextPar]_vars /\ \A p \in Procs : WF_vars(Step(p))

Done(p) == ~Running(p)

---------------------------------------------------------------------------
(* JSON text (RFC 8259), as far as the encoder's output uses it: objects,  *)
(* strings, integers and the three literals.  Each Skip operator returns   *)
(* the index after the construct that starts at i, or 0 when there is none.*)

At(s, i) == IF i >= 1 /\ i <= Len(s) THEN SubSeq(s, i, i) ELSE ""

DigitChars == {"0", "1", "2", "3", "4", "5", "6", "7", "8", "9"}

RECURSIVE SkipStringBody(_, _)
\* i is inside a string, after its opening quote.
SkipStringBody(s, i) ==
    LET c == At(s, i)
    IN  IF c = "" \/ c = "\t" THEN 0
        ELSE IF c = "\"" THEN i + 1
        ELSE IF c = "\\" THEN
            IF At(s, i + 1) \in {"\"", "\\", "/", "b", "f", "n", "r", "t"}
            THEN SkipStringBody(s, i + 2) ELSE 0
        ELSE SkipStringBody(s, i + 1)

RECURSIVE SkipDigits(_, _)
SkipDigits(s, i) == IF At(s, i) \in DigitChars THEN SkipDigits(s, i + 1) ELSE i

SkipNumber(s, i) ==
    LET j == IF At(s, i) = "-" THEN i + 1 ELSE i
        k == SkipDigits(s, j)
    IN  IF k = j \/ (At(s, j) = "0" /\ k > j + 1) THEN 0 ELSE k

SkipLiteral(s, i, lit) ==
    IF i + Len(lit) - 1 <= Len(s) /\ SubSeq(s, i, i + Len(lit) - 1) = lit
    THEN i + Len(lit) ELSE 0

RECURSIVE SkipValue(_, _)
RECURSIVE SkipMembers(_, _)
SkipValue(s, i) ==
    LET c == At(s, i)
    IN  CASE c = "\"" -> SkipStringBody(s, i + 1)
          [] c = "{" -> IF At(s, i + 1) = "}" THEN i + 2 ELSE SkipMembers(s, i + 1)
          [] c = "n" -> SkipLiteral(s, i, "null")
          [] c = "t" -> SkipLiteral(s, i, "true")
          [] c = "f" -> SkipLiteral(s, i, "false")
          [] c = "-" \/ c \in DigitChars -> SkipNumber(s, i)
          [] OTHER -> 0

\* i is at a member's name; returns the index after the object's "}".
SkipMembers(s, i) ==
    LET k == IF At(s, i) = "\"" THEN SkipStringBody(s, i + 1) ELSE 0
        v == IF k # 0 /\ At(s, k) = ":" THEN SkipValue(s, k + 1) ELSE 0
    IN  IF v = 0 THEN 0
        ELSE IF At(s, v) = "," THEN SkipMembers(s, v + 1)
        ELSE IF At(s, v) = "}" THEN v + 1
        ELSE 0

\* s is exactly one JSON value: nothing before it, nothing after it.
IsOneJSONValue(s) == SkipValue(s, 1) = Len(s) + 1

---------------------------------------------------------------------------
(* The canonical decoder: the parser of the canonical grammar, the inverse *)
(* direction of the encoder.  Decode(s) is the tagged value s stands for,  *)
(* or Invalid when s is not a word of the grammar.                         *)

Invalid == <<"Invalid", << >> >>

StartsWith(s, pre) == Len(s) >= Len(pre) /\ SubSeq(s, 1, Len(pre)) = pre

EndsWith(s, suf) ==
    Len(s) >= Len(suf) /\ SubSeq(s, Len(s) - Len(suf) + 1, Len(s)) = suf

\* s is pre \o t \o suf: Between is t.
Wraps(s, pre, suf) ==
    Len(s) >= Len(pre) + Len(suf) /\ StartsWith(s, pre) /\ EndsWith(s, suf)

Between(s, pre, suf) == SubSeq(s, Len(pre) + 1, Len(s) - Len(suf))

RECURSIVE IndexFrom(_, _, _)
\* The first index >= i of character c in s, or 0.
IndexFrom(s, c, i) ==
    IF i > Len(s) THEN 0 ELSE IF Ch(s, i) = c THEN i ELSE IndexFrom(s, c, i + 1)

IndexOf(s, c) == IndexFrom(s, c, 1)

\* t is the body of one JSON string.
IsStringBody(t) == SkipStringBody(t \o "\"", 1) = Len(t) + 2

RECURSIVE Unescape(_, _)
Unescape(t, i) ==
    IF i > Len(t) THEN ""
    ELSE IF Ch(t, i) = "\\" THEN
        (IF At(t, i + 1) = "t" THEN "\t" ELSE At(t, i + 1)) \o Unescape(t, i + 2)
    ELSE Ch(t, i) \o Unescape(t, i + 1)

\* Plain decimal digits: no sign, no leading zero, no grouping.
IsPlainDecimal(t) ==
    /\ Len(t) >= 1
    /\ \A i \in 1..Len(t) : Ch(t, i) \in DigitChars
    /\ Len(t) > 1 => Ch(t, 1) # "0"

RECURSIVE MulAddLimbs(_, _, _)
\* l * 10 + carry from limb i down: <<limbs, carry out>>.
MulAddLimbs(l, i, carry) ==
    IF i = 0 THEN <<l, carry>>
    ELSE LET cur == l[i] * 10 + carry
         IN  MulAddLimbs([l EXCEPT ![i] = cur % LimbBase], i - 1, cur \div LimbBase)

RECURSIVE ParseLimbsFrom(_, _, _)
\* The digits of t from i on, accumulated into acc: <<fits, limbs>>.
ParseLimbsFrom(t, i, acc) ==
    IF i > Len(t) THEN <<TRUE, acc>>
    ELSE LET r == MulAddLimbs(acc, Len(acc), IndexOf("0123456789", Ch(t, i)) - 1)
         IN  IF r[2] # 0 THEN <<FALSE, acc>> ELSE ParseLimbsFrom(t, i + 1, r[1])

\* The unsigned n-limb number plain decimal t stands for.
ParseUnsigned(t, n) ==
    IF IsPlainDecimal(t) THEN ParseLimbsFrom(t, 1, [i \in 1..n |-> 0])
    ELSE <<FALSE, << >> >>

\* The two's complement n-limb number t stands for: <<valid, limbs>>.
ParseSigned(t, n) ==
    LET isNeg == StartsWith(t, "-")
        m == ParseUnsigned(IF isNeg THEN SubSeq(t, 2, Len(t)) ELSE t, n)
    IN  IF ~m[1] THEN m
        ELSE IF isNeg THEN
            <<~IsZeroLimbs(m[2]) /\ IsNegLimbs(NegLimbs(m[2])), NegLimbs(m[2])>>
        ELSE <<~IsNegLimbs(m[2]), m[2]>>

\* int32_t as two's complement limbs, and back.
Int32ToLimbs(val) ==
    IF val >= 0 THEN <<val \div LimbBase, val % LimbBase>>
    ELSE LET v == (val + INT32_MAX) + 1
         IN  <<LimbBase \div 2 + v \div LimbBase, v % LimbBase>>

LimbsToInt32(l) ==
    IF l[1] < LimbBase \div 2 THEN l[1] * LimbBase + l[2]
    ELSE ((l[1] - LimbBase \div 2) * LimbBase + l[2] - INT32_MAX) - 1

DecodeInt32(t) ==
    LET r == ParseSigned(t, 2)
    IN  IF r[1] THEN <<"Int32", LimbsToInt32(r[2])>> ELSE Invalid

DecodeInt64(kind, t) ==
    LET r == ParseSigned(t, 4)
    IN  IF r[1] THEN <<kind, r[2]>> ELSE Invalid

\* Small naturals of the model's doubles and decimals.
ParseNat(t) == LimbsToInt32(ParseLimbsFrom(t, 1, <<0, 0>>)[2])

IsDigits(t) == Len(t) >= 1 /\ \A i \in 1..Len(t) : Ch(t, i) \in DigitChars

DecodeDouble(t) ==
    CASE t = "NaN" -> <<"Double", [cls |-> "nan", neg |-> FALSE, mag |-> 0]>>
      [] t = "Infinity" -> <<"Double", [cls |-> "inf", neg |-> FALSE, mag |-> 0]>>
      [] t = "-Infinity" -> <<"Double", [cls |-> "inf", neg |-> TRUE, mag |-> 0]>>
      [] OTHER ->
            LET isNeg == StartsWith(t, "-")
                u == IF isNeg THEN SubSeq(t, 2, Len(t)) ELSE t
            IN  IF EndsWith(u, ".0") /\ IsPlainDecimal(Between(u, "", ".0"))
                THEN <<"Double", [cls |-> "fin", neg |-> isNeg,
                                  mag |-> ParseNat(Between(u, "", ".0"))]>>
                ELSE Invalid

\* [-]digits[.digits][E(+|-)digits]
DecodeDecimal(t) ==
    CASE t = "NaN" ->
            <<"Decimal128", [cls |-> "nan", neg |-> FALSE, coeff |-> 0, exp |-> 0]>>
      [] t = "Infinity" ->
            <<"Decimal128", [cls |-> "inf", neg |-> FALSE, coeff |-> 0, exp |-> 0]>>
      [] t = "-Infinity" ->
            <<"Decimal128", [cls |-> "inf", neg |-> TRUE, coeff |-> 0, exp |-> 0]>>
      [] OTHER ->
            LET isNeg == StartsWith(t, "-")
                u == IF isNeg THEN SubSeq(t, 2, Len(t)) ELSE t
                e == IndexOf(u, "E")
                mant == IF e = 0 THEN u ELSE SubSeq(u, 1, e - 1)
                expo == IF e = 0 THEN "+0" ELSE SubSeq(u, e + 1, Len(u))
                dot == IndexOf(mant, ".")
                ip == IF dot = 0 THEN mant ELSE SubSeq(mant, 1, dot - 1)
                fp == IF dot = 0 THEN "" ELSE SubSeq(mant, dot + 1, Len(mant))
                expDigits == SubSeq(expo, 2, Len(expo))
            IN  IF /\ IsDigits(ip)
                   /\ dot # 0 => IsDigits(fp)
                   /\ At(expo, 1) \in {"+", "-"}
                   /\ IsDigits(expDigits)
                THEN <<"Decimal128",
                       [cls |-> "fin", neg |-> isNeg, coeff |-> ParseNat(ip \o fp),
                        exp |-> (IF At(expo, 1) = "-" THEN -ParseNat(expDigits)
                                 ELSE ParseNat(expDigits)) - Len(fp)]>>
                ELSE Invalid

IsHex(t) == \A i \in 1..Len(t) : IndexOf("0123456789abcdef", Ch(t, i)) # 0

HexVal(c) == IndexOf("0123456789abcdef", c) - 1

\* 24 lowercase hex characters to 12 bytes.
DecodeOIDHex(t) == [i \in 1..12 |-> HexVal(Ch(t, 2 * i - 1)) * 16 + HexVal(Ch(t, 2 * i))]

IsOIDHex(t) == Len(t) = 24 /\ IsHex(t)

B64Val(c) ==
    IndexOf("ABCDEFGHIJKLMNOPQRSTUVWXYZabcdefghijklmnopqrstuvwxyz0123456789+/", c) - 1

IsBase64(t) ==
    /\ Len(t) % 4 = 0
    /\ \A i \in 1..Len(t) :
          \/ B64Val(Ch(t, i)) >= 0
          \/ Ch(t, i) = "=" /\ i >= Len(t) - 1 /\ (i = Len(t) - 1 => Ch(t, Len(t)) = "=")

RECURSIVE Base64Decode(_, _)
Base64Decode(t, i) ==
    IF i > Len(t) THEN << >>
    ELSE LET a == B64Val(Ch(t, i))
             b == B64Val(Ch(t, i + 1))
             c == B64Val(Ch(t, i + 2))
             d == B64Val(Ch(t, i + 3))
         IN  << a * 4 + b \div 16 >>
                \o (IF c < 0 THEN << >> ELSE << (b % 16) * 16 + c \div 4 >>)
                \o (IF c < 0 \/ d < 0 THEN << >> ELSE << (c % 4) * 64 + d >>)
                \o Base64Decode(t, i + 4)

\* {"$ref":"<escaped name>","$id":"<24 hex>"}: the tail has a fixed length.
DecodeDBRef(s) ==
    LET tailLen == Len("\",\"$id\":\"") + 24 + Len("\"}")
        name == SubSeq(s, Len("{\"$ref\":\"") + 1, Len(s) - tailLen)
        tail == SubSeq(s, Len(s) - tailLen + 1, Len(s))
    IN  IF /\ Len(s) >= Len("{\"$ref\":\"") + tailLen
           /\ IsStringBody(name)
           /\ Wraps(tail, "\",\"$id\":\"", "\"}")
           /\ IsOIDHex(Between(tail, "\",\"$id\":\"", "\"}"))
        THEN <<"DBRef", [ref |-> Unescape(name, 1),
                         id |-> DecodeOIDHex(Between(tail, "\",\"$id\":\"", "\"}"))]>>
        ELSE Invalid

\* {"$timestamp":{"t":<secs>,"i":<inc>}}
DecodeTimestamp(s) ==
    LET body == Between(s, "{\"$timestamp\":{\"t\":", "}}")
        c == IndexOf(body, ",")
        t == SubSeq(body, 1, c - 1)
        rest == SubSeq(body, c + 1, Len(body))
        secs == ParseUnsigned(t, 2)
        inc == ParseUnsigned(Between(rest, "\"i\":", ""), 2)
    IN  IF c # 0 /\ StartsWith(rest, "\"i\":") /\ secs[1] /\ inc[1]
        THEN <<"Timestamp", [secs |-> secs[2], inc |-> inc[2]]>>
        ELSE Invalid

\* {"$binary":{"base64":"<base64>","subType":"<2-digit lowercase hex>"}}
DecodeBinData(s) ==
    LET body == Between(s, "{\"$binary\":{\"base64\":\"", "\"}}")
        q == IndexOf(body, "\"")
        b64 == SubSeq(body, 1, q - 1)
        rest == SubSeq(body, q, Len(body))
        sub == Between(rest, "\",\"subType\":\"", "")
    IN  IF /\ q # 0
           /\ IsBase64(b64)
           /\ StartsWith(rest, "\",\"subType\":\"")
           /\ Len(sub) = 2
           /\ IsHex(sub)
        THEN <<"BinData", [data |-> Base64Decode(b64, 1),
                           type |-> HexVal(Ch(sub, 1)) * 16 + HexVal(Ch(sub, 2))]>>
        ELSE Invalid

\* {"$regularExpression":{"pattern":"<escaped>","options":"<escaped>"}}
DecodeRegex(s) ==
    LET pre == "{\"$regularExpression\":{\"pattern\":\""
        k == SkipStringBody(s, Len(pre) + 1)
        pattern == SubSeq(s, Len(pre) + 1, k - 2)
        rest == SubSeq(s, k, Len(s))
        options == Between(rest, ",\"options\":\"", "\"}}")
    IN  IF k # 0 /\ Wraps(rest, ",\"options\":\"", "\"}}") /\ IsStringBody(options)
        THEN <<"Regex", [pattern |-> Unescape(pattern, 1),
                         options |-> Unescape(options, 1)]>>
        ELSE Invalid

RECURSIVE Decode(_)
RECURSIVE DecodeMembers(_, _)

\* The members of a document from index i of s (a member's name) to the end
\* of s, which is the document's "}": <<valid, fields>>.
DecodeMembers(s, i) ==
    LET k == IF At(s, i) = "\"" THEN SkipStringBody(s, i + 1) ELSE 0
        v == IF k # 0 /\ At(s, k) = ":" THEN SkipValue(s, k + 1) ELSE 0
        name == Unescape(SubSeq(s, i + 1, k - 2), 1)
        val == Decode(SubSeq(s, k + 1, v - 1))
        more == DecodeMembers(s, v + 1)
    IN  IF v = 0 \/ val = Invalid THEN <<FALSE, << >> >>
        ELSE IF At(s, v) = "}" /\ v = Len(s) THEN <<TRUE, << <<name, val>> >> >>
        ELSE IF At(s, v) = "," /\ more[1] THEN <<TRUE, << <<name, val>> >> \o more[2]>>
        ELSE <<FALSE, << >> >>

\* A document: {} or {"name":value,...}.
DecodeDoc(s) ==
    IF s = "{}" THEN <<TRUE, << >> >>
    ELSE IF StartsWith(s, "{") THEN DecodeMembers(s, 2)
    ELSE <<FALSE, << >> >>

\* {"$code":"<escaped>"} or {"$code":"<escaped>","$scope":<document>}
DecodeCode(s) ==
    LET pre == "{\"$code\":\""
        k == SkipStringBody(s, Len(pre) + 1)
        code == Unescape(SubSeq(s, Len(pre) + 1, k - 2), 1)
        rest == SubSeq(s, k, Len(s))
        scope == DecodeDoc(Between(rest, ",\"$scope\":", "}"))
    IN  IF k = 0 THEN Invalid
        ELSE IF rest = "}" THEN <<"Code", code>>
        ELSE IF Wraps(rest, ",\"$scope\":", "}") /\ scope[1]
             THEN <<"CodeWScope", [code |-> code, scope |-> scope[2]]>>
        ELSE Invalid

Decode(s) ==
    CASE s = "null" -> <<"Null", << >> >>
      [] s = "true" -> <<"Bool", TRUE>>
      [] s = "false" -> <<"Bool", FALSE>>
      [] s = "{\"$undefined\":true}" -> <<"Undefined", << >> >>
      [] s = "{\"$minKey\":1}" -> <<"MinKey", << >> >>
      [] s = "{\"$maxKey\":1}" -> <<"MaxKey", << >> >>
      [] StartsWith(s, "\"") ->
            IF Len(s) >= 2 /\ SkipStringBody(s, 2) = Len(s) + 1
            THEN <<"String", Unescape(SubSeq(s, 2, Len(s) - 1), 1)>> ELSE Invalid
      [] Wraps(s, "{\"$numberInt\":\"", "\"}") ->
            DecodeInt32(Between(s, "{\"$numberInt\":\"", "\"}"))
      [] Wraps(s, "{\"$numberLong\":\"", "\"}") ->
            DecodeInt64("Int64", Between(s, "{\"$numberLong\":\"", "\"}"))
      [] Wraps(s, "{\"$numberDouble\":\"", "\"}") ->
            DecodeDouble(Between(s, "{\"$numberDouble\":\"", "\"}"))
      [] Wraps(s, "{\"$numberDecimal\":\"", "\"}") ->
            DecodeDecimal(Between(s, "{\"$numberDecimal\":\"", "\"}"))
      [] Wraps(s, "{\"$date\":{\"$numberLong\":\"", "\"}}") ->
            DecodeInt64("Date", Between(s, "{\"$date\":{\"$numberLong\":\"", "\"}}"))
      [] Wraps(s, "{\"$oid\":\"", "\"}") ->
            IF IsOIDHex(Between(s, "{\"$oid\":\"", "\"}"))
            THEN <<"OID", DecodeOIDHex(Between(s, "{\"$oid\":\"", "\"}"))>> ELSE Invalid
      [] StartsWith(s, "{\"$ref\":\"") -> DecodeDBRef(s)
      [] Wraps(s, "{\"$timestamp\":{\"t\":", "}}") -> DecodeTimestamp(s)
      [] Wraps(s, "{\"$binary\":{\"base64\":\"", "\"}}") -> DecodeBinData(s)
      [] StartsWith(s, "{\"$regularExpression\":{\"pattern\":\"") -> DecodeRegex(s)
      [] Wraps(s, "{\"$symbol\":\"", "\"}") ->
            IF IsStringBody(Between(s, "{\"$symbol\":\"", "\"}"))
            THEN <<"Symbol", Unescape(Between(s, "{\"$symbol\":\"", "\"}"), 1)>>
            ELSE Invalid
      [] StartsWith(s, "{\"$code\":\"") -> DecodeCode(s)
      [] OTHER -> Invalid

---------------------------------------------------------------------------
(* The claims.                                                             *)

TwoHex(n) == HexDigit(n \div 16) \o HexDigit(n % 16)

\* C1: writeBinData renders every subtype 0..255 as exactly 2 lowercase hex
\* digits, zero-padded, after the base64 field inside $binary.
C1_SubtypeTwoHexDigits ==
    op = "BinData" =>
        Appended = "{\"$binary\":{\"base64\":\"" \o base64encode(arg.data)
                      \o "\",\"subType\":\"" \o TwoHex(arg.type) \o "\"}}"

\* C2 as stated: at traversal depth d, the nested document call of
\* writeCodeWithScope receives depth d + 1 and pretty = false.
C2_NestedDepthIncremented ==
    op = "CodeWScope" =>
        \A k \in 1..Len(calls) :
            calls[k].depth = calls[k].ctx + 1 /\ calls[k].pretty = FALSE

\* C2 as amended: at every traversal depth d, every nested document call of
\* writeCodeWithScope receives depth 0 and pretty = false, and the call for
\* the value's own scope is made at depth d.
C2_NestedDepthZeroCompact ==
    op = "CodeWScope" =>
        /\ Len(calls) >= 1
        /\ calls[1].ctx = ctxDepth
        /\ \A k \in 1..Len(calls) : calls[k].depth = 0 /\ calls[k].pretty = FALSE

C2_Witness == op = "CodeWScope" /\ ctxDepth = MaxCtxDepth /\ Len(calls) >= 2

\* The value a NaN of either sign stands for.
Canon(kind, x) ==
    IF kind \in {"Double", "Decimal128"} /\ x.cls = "nan"
    THEN [x EXCEPT !.neg = FALSE] ELSE x

\* C3: the canonical decoder recovers, from the bytes a write operation
\* appended, the kind and the value that were written.
C3_RoundTrip ==
    op \notin {"init", "Padding"} => Decode(Appended) = <<op, Canon(op, arg)>>

\* C4: every write operation other than writePadding appends exactly one
\* well-formed JSON value: balanced, closed, with no comma or brace of the
\* enclosing structure at either end.
C4_OneWellFormedValue ==
    op \notin {"init", "Padding"} => IsOneJSONValue(Appended)

C4_Witness ==
    /\ op = "CodeWScope"
    /\ Len(calls) >= 2
    /\ arg.code = "f(\"}\")"
    /\ Len(prev) > 0

Specials == {"NaN", "Infinity", "-Infinity"}

SpecialForm(x) ==
    CASE x.cls = "nan" -> "NaN"
      [] x.cls = "inf" /\ ~x.neg -> "Infinity"
      [] x.cls = "inf" /\ x.neg -> "-Infinity"
      [] OTHER -> ""

\* The text between the type tag's quotes.
Tagged(tag) == Between(Appended, "{\"" \o tag \o "\":\"", "\"}")

IsTagged(tag) == Wraps(Appended, "{\"" \o tag \o "\":\"", "\"}")

\* C5: writeDouble and writeDecimal128 render every NaN as NaN, the
\* infinities as Infinity and -Infinity, inside the kind's tag; a finite value
\* is never rendered as one of the three, and what numeric formatting makes
\* of a NaN or an infinity (nan, inf) never appears.
C5_SpecialFormsFirst ==
    /\ op = "Double" =>
        /\ IsTagged("$numberDouble")
        /\ arg.cls # "fin" => Tagged("$numberDouble") = SpecialForm(arg)
        /\ arg.cls = "fin" => Tagged("$numberDouble") \notin Specials
                                /\ At(Tagged("$numberDouble"), Len(Tagged("$numberDouble")))
                                        \in DigitChars
    /\ op = "Decimal128" =>
        /\ IsTagged("$numberDecimal")
        /\ arg.cls # "fin" => Tagged("$numberDecimal") = SpecialForm(arg)
        /\ arg.cls = "fin" => Tagged("$numberDecimal") \notin Specials
                                /\ At(Tagged("$numberDecimal"), Len(Tagged("$numberDecimal")))
                                        \in DigitChars

C5_Witness == op = "Double" /\ arg.cls = "inf" /\ ~arg.neg /\ Len(prev) > 0

\* C6: no write call fails: the uassert of writeDouble is never reached, for
\* finite values, NaNs and both infinities, and every call of writeDouble
\* appends its value.
C6_NeverFails ==
    /\ ~failed
    /\ op = "Double" => Len(Appended) > 0

C6_Witness == op = "Double" /\ arg.cls = "inf" /\ arg.neg /\ ~failed

IsPrefix(s, t) == Len(s) <= Len(t) /\ SubSeq(t, 1, Len(s)) = s

\* C7: every step leaves the buffer's former content an unchanged prefix of
\* its new content, and a step of writePadding leaves the buffer as it was.
C7_AppendOnly ==
    [][IsPrefix(buffer, buffer') /\ (op' = "Padding" => buffer' = buffer)]_vars

C7_Witness == op = "Padding" /\ Len(buffer) > 0 /\ buffer = prev

RECURSIVE CountCodeWScope(_)
RECURSIVE CountInDoc(_, _)
\* The code-with-scope values in v, v itself included.
CountCodeWScope(v) ==
    IF v[1] = "CodeWScope" THEN 1 + CountInDoc(v[2].scope, 1) ELSE 0

CountInDoc(doc, i) ==
    IF i > Len(doc) THEN 0 ELSE CountCodeWScope(doc[i][2]) + CountInDoc(doc, i + 1)

RECURSIVE ValueSize(_)
RECURSIVE DocSize(_, _)
ValueSize(v) == 1 + (IF v[1] = "CodeWScope" THEN DocSize(v[2].scope, 1) ELSE 0)

DocSize(doc, i) ==
    IF i > Len(doc) THEN 1 ELSE ValueSize(doc[i][2]) + DocSize(doc, i + 1)

\* Every document frame was entered by the code-with-scope frame below it,
\* for that value's own scope document, which is strictly smaller.
Descends(p) ==
    \A k \in 1..Len(frames[p]) :
        frames[p][k].kind = "doc" =>
            /\ k > 1
            /\ frames[p][k - 1].kind = "CodeWScope"
            /\ frames[p][k].val = frames[p][k - 1].val[2].scope
            /\ DocSize(frames[p][k].val, 1) < ValueSize(frames[p][k - 1].val)

\* C8: every encode call ends; it never makes more than one nested call per
\* code-with-scope value and by its end has made exactly one for each, every
\* nested call is for a strictly smaller scope document, and every $code
\* object entered is closed with its brace.
C8_Terminates ==
    /\ [](\A p \in Procs :
            /\ Descends(p)
            /\ nested[p] <= CountCodeWScope(inputs[p])
            /\ Done(p) =>
                /\ nested[p] = CountCodeWScope(inputs[p])
                /\ closed[p] = CountCodeWScope(inputs[p])
                /\ inputs[p][1] = "CodeWScope" => EndsWith(bufs[p], "}}"))
    /\ <>(\A p \in Procs : Done(p))

C8_Witness ==
    \E p \in Procs : Done(p) /\ nested[p] >= MaxNest + 1 /\ closed[p] = nested[p]

\* C9: under every interleaving, each buffer holds at every moment a prefix
\* of what its call appends when run alone, and exactly that at the end; two
\* calls given the same value end with the same bytes.
C9_Independent ==
    \A p \in Procs :
        /\ IsPrefix(bufs[p], Encode(inputs[p]))
        /\ Done(p) => bufs[p] = Encode(inputs[p])
        /\ \A q \in Procs :
              Done(p) /\ Done(q) /\ inputs[p] = inputs[q] => bufs[p] = bufs[q]

C9_Witness ==
    /\ Done(1)
    /\ Done(2)
    /\ inputs[1] = inputs[2]
    /\ inputs[1][1] = "CodeWScope"
    /\ nested[1] >= 2

\* C10: writeInt32, writeInt64 and writeDate wrap the number's plain decimal
\* text (optional minus sign, no leading zeros, no grouping) in
\* {"$numberInt":"<n>"}, {"$numberLong":"<n>"} and
\* {"$date":{"$numberLong":"<ms>"}}, up to the extremes of the width.
C10_PlainDecimal ==
    /\ op = "Int32" =>
        /\ IsTagged("$numberInt")
        /\ ParseSigned(Tagged("$numberInt"), 2) = <<TRUE, Int32ToLimbs(arg)>>
    /\ op = "Int64" =>
        /\ IsTagged("$numberLong")
        /\ ParseSigned(Tagged("$numberLong"), 4) = <<TRUE, arg>>
    /\ op = "Date" =>
        /\ Wraps(Appended, "{\"$date\":{\"$numberLong\":\"", "\"}}")
        /\ ParseSigned(Between(Appended, "{\"$date\":{\"$numberLong\":\"", "\"}}"), 4)
                = <<TRUE, arg>>

C10_Witness == op = "Int64" /\ arg = <<32768, 0, 0, 0>> /\ Len(prev) > 0

====
